---- MODULE Spec2Model ----
(***************************************************************************)
(* Model of generate_playlists.py: the fetcher (fetch_url), the formatter  *)
(* (format_extinf), the writer (write_m3u_file) and the catalog            *)
(* transformer (generate_lgchannels_m3u).                                  *)
(*                                                                         *)
(* Text is a sequence of tokens.  Every string that comes from data (a     *)
(* channel key, a region code, a name, ...) is spelled one character per   *)
(* token, so that replace(), lower(), upper(), isdigit() and string        *)
(* comparison are computed character by character.  The literal fragments  *)
(* of the f-strings and URL templates of the source are kept as one token  *)
(* each; none of them contains a comma or a line break, except the tokens  *)
(* "," and "\n" themselves.                                                *)
(***************************************************************************)
EXTENDS Integers, Sequences, FiniteSets, TLC

VARIABLES
  pc,         \* "idle", or the position of a run of the region loop
  call,       \* the last call made: function name and arguments
  ret,        \* how that call ended: returned value or raised exception
  log,        \* the log lines that call emitted
  dirExists,  \* filesystem: does OUTPUT_DIR exist
  files,      \* filesystem: file name -> content, for the files in OUTPUT_DIR
  disk,       \* environment: which filesystem operation fails, if any
  net,        \* environment: what the network answers to the catalog GET
  data,       \* the catalog held by a run of the region loop
  regions,    \* the regions argument of the run
  sort,       \* the sort argument of the run
  idx         \* index into regions of the next region of the for loop

vars == <<pc, call, ret, log, dirExists, files, disk, net, data, regions, sort, idx>>

(***************************************************************************)
(* Bounds of the model.                                                    *)
(***************************************************************************)
MaxChannels == 3       \* channels of the region in the sorting catalogs
MaxMergeChannels == 2  \* channels per region in the two-region catalogs
MaxRequests == 2       \* length of the list of requested regions

(***************************************************************************)
(* Characters and strings.                                                 *)
(***************************************************************************)
Ascii == <<" ", "!", "\"", "#", "$", "%", "&", "'", "(", ")", "*", "+", ",", "-", ".", "/", "0", "1", "2", "3", "4", "5", "6", "7", "8", "9", ":", ";", "<", "=", ">", "?", "@", "A", "B", "C", "D", "E", "F", "G", "H", "I", "J", "K", "L", "M", "N", "O", "P", "Q", "R", "S", "T", "U", "V", "W", "X", "Y", "Z", "[", "\\", "]", "^", "_", "(backtick)", "a", "b", "c", "d", "e", "f", "g", "h", "i", "j", "k", "l", "m", "n", "o", "p", "q", "r", "s", "t", "u", "v", "w", "x", "y", "z", "{", "|", "}", "~">>

\* ord(c) for a printable ASCII character (Ascii[1] is chr(32); the backtick,
\* chr(96), cannot be spelled in a TLA+ string and no string of the model has it)
Ord(c) == 31 + (CHOOSE i \in 1..Len(Ascii) : Ascii[i] = c)

Chr(n) == Ascii[n - 31]

\* str.lower() and str.upper()
Lower(s) == [i \in 1..Len(s) |-> IF Ord(s[i]) \in 65..90 THEN Chr(Ord(s[i]) + 32) ELSE s[i]]

Upper(s) == [i \in 1..Len(s) |-> IF Ord(s[i]) \in 97..122 THEN Chr(Ord(s[i]) - 32) ELSE s[i]]

\* s.replace(old, new) for one-character old and new
Replace(s, old, new) == [i \in 1..Len(s) |-> IF s[i] = old THEN new ELSE s[i]]

\* s.replace(old, '') for a one-character old
Remove(s, old) == SelectSeq(s, LAMBDA c : c # old)

\* a < b for two str values: lexicographic by code point
StrLess(a, b) ==
  \E i \in 1..(Len(a) + 1) :
    /\ i <= Len(b)
    /\ \A j \in 1..(i - 1) : a[j] = b[j]
    /\ (i = Len(a) + 1 \/ Ord(a[i]) < Ord(b[i]))

DigitChars == <<"0", "1", "2", "3", "4", "5", "6", "7", "8", "9">>

DigitVal(c) == (CHOOSE i \in 1..10 : DigitChars[i] = c) - 1

\* str.isdigit()
isdigit(s) == Len(s) > 0 /\ \A i \in 1..Len(s) : \E d \in 1..10 : DigitChars[d] = s[i]

RECURSIVE Decimal(_)
Decimal(n) == IF n < 10 THEN <<DigitChars[n + 1]>> ELSE Decimal(n \div 10) \o <<DigitChars[(n % 10) + 1]>>

RECURSIVE DigitsValue(_)
DigitsValue(s) == IF s = <<>> THEN 0 ELSE 10 * DigitsValue(SubSeq(s, 1, Len(s) - 1)) + DigitVal(s[Len(s)])

RECURSIVE LStrip(_)
LStrip(s) == IF s # <<>> /\ s[1] = " " THEN LStrip(Tail(s)) ELSE s

RECURSIVE RStrip(_)
RStrip(s) == IF s # <<>> /\ s[Len(s)] = " " THEN RStrip(SubSeq(s, 1, Len(s) - 1)) ELSE s

(***************************************************************************)
(* Python values, as json.loads produces them.  Absent is not a value: it  *)
(* marks a key that the dict does not have.                                *)
(***************************************************************************)
None == [t |-> "none"]

Absent == [t |-> "absent"]

PyInt(n) == [t |-> "int", n |-> n]

PyStr(s) == [t |-> "str", s |-> s]

PyFloat(whole, tenths) == [t |-> "float", whole |-> whole, tenths |-> tenths]

\* dict.get(key, default) on a record whose absent keys hold Absent
Get(d, key, default) == IF d[key] = Absent THEN default ELSE d[key]

\* str(v)
str(v) ==
  CASE v.t = "none" -> <<"N", "o", "n", "e">>
    [] v.t = "int" -> IF v.n < 0 THEN <<"-">> \o Decimal(-v.n) ELSE Decimal(v.n)
    [] v.t = "float" -> Decimal(v.whole) \o <<".">> \o Decimal(v.tenths)
    [] v.t = "str" -> v.s

Returned(v) == [ok |-> TRUE, v |-> v]

Raised(exc) == [ok |-> FALSE, exc |-> exc]

\* int(v): an int is itself, a float is truncated, a str is stripped and
\* parsed as an optional sign and decimal digits, None is a TypeError
int(v) ==
  CASE v.t = "none" -> Raised("TypeError")
    [] v.t = "int" -> Returned(v.n)
    [] v.t = "float" -> Returned(v.whole)
    [] v.t = "str" ->
         LET s == RStrip(LStrip(v.s))
             signed == s # <<>> /\ s[1] \in {"-", "+"}
             body == IF signed THEN Tail(s) ELSE s
         IN  IF ~isdigit(body) THEN Raised("ValueError")
             ELSE IF signed /\ s[1] = "-" THEN Returned(0 - DigitsValue(body))
             ELSE Returned(DigitsValue(body))

(***************************************************************************)
(* format_extinf                                                           *)
(***************************************************************************)
\* line 80 with the test 'is a number' in place of 'is all digits'
chno_str_any_number(tvg_chno) == IF tvg_chno # None /\ int(tvg_chno).ok THEN str(tvg_chno) ELSE <<>>

\* line 80
chno_str(tvg_chno) == IF tvg_chno # None /\ isdigit(str(tvg_chno)) THEN str(tvg_chno) ELSE <<>>

\* line 85 without the replace
display_name_unchanged(display_name) == display_name

\* line 85
sanitized_display(display_name) == Remove(display_name, ",")

\* lines 77-94.  channel_id and tvg_id are str; the other arguments are
\* whatever the channel record holds.  v.replace raises AttributeError on a
\* value that is not a str.
format_extinf(channel_id, tvg_id, tvg_chno, tvg_name, tvg_logo, group_title, display_name) ==
  IF tvg_name.t # "str" \/ group_title.t # "str" \/ display_name.t # "str"
  THEN Raised("AttributeError")
  ELSE LET sanitized_tvg_name == Replace(tvg_name.s, "\"", "'")
           sanitized_group_title == Replace(group_title.s, "\"", "'")
           sanitized_display_name == sanitized_display(display_name.s)
       IN  Returned(<<"#EXTINF:-1 ">>
                    \o <<"channel-id=\"">> \o channel_id \o <<"\" ">>
                    \o <<"tvg-id=\"">> \o tvg_id \o <<"\" ">>
                    \o <<"tvg-chno=\"">> \o chno_str(tvg_chno) \o <<"\" ">>
                    \o <<"tvg-name=\"">> \o sanitized_tvg_name \o <<"\" ">>
                    \o <<"tvg-logo=\"">> \o str(tvg_logo) \o <<"\" ">>
                    \o <<"group-title=\"">> \o sanitized_group_title \o <<"\"", ",">>
                    \o sanitized_display_name \o <<"\n">>)

(***************************************************************************)
(* fetch_url                                                               *)
(*                                                                         *)
(* A response is [status, body].  A body is [gz, utf8, text]:              *)
(*   gz    "plain"     the bytes do not start with the gzip magic number   *)
(*         "empty"     no bytes at all                                     *)
(*         "ok"        a well-formed gzip stream                           *)
(*         "truncated" a gzip stream that ends before its end marker       *)
(*         "baddata"   a gzip stream whose deflate data is invalid         *)
(*         "badcrc"    a gzip stream whose CRC or length trailer is wrong  *)
(*   utf8  whether the payload (the bytes themselves for "plain", the      *)
(*         decompressed bytes otherwise) is valid UTF-8                    *)
(*   text  the payload as text: [parses, value], what json.loads makes of  *)
(*         it                                                              *)
(***************************************************************************)
\* gzip.GzipFile(fileobj=BytesIO(content)).read(), line 33-34
GzipRead(body) ==
  CASE body.gz = "plain" -> Raised("BadGzipFile")
    [] body.gz = "empty" -> Returned(body)
    [] body.gz = "ok" -> Returned(body)
    [] body.gz = "truncated" -> Raised("EOFError")
    [] body.gz = "baddata" -> Raised("zlib.error")
    [] body.gz = "badcrc" -> Raised("BadGzipFile")

\* response.content.decode('utf-8') of the bytes as received: a body that
\* starts with the gzip magic number 1f 8b is never valid UTF-8
DecodeRaw(body) ==
  IF body.gz \in {"plain", "empty"} /\ body.utf8 THEN Returned(body.text) ELSE Raised("UnicodeDecodeError")

\* decode('utf-8') of the decompressed bytes
DecodePayload(body) ==
  IF body.utf8 THEN Returned(body.text) ELSE Raised("UnicodeDecodeError")

\* json.loads(content)
json_loads(text) == IF text.parses THEN Returned(text.value) ELSE Raised("JSONDecodeError")

\* line 36 with 'except Exception' in place of 'except gzip.BadGzipFile'
caught_by_any_handler(exc) == TRUE

\* line 36: except gzip.BadGzipFile
caught_as_bad_gzip(exc) == exc = "BadGzipFile"

\* lines 28-44: the text of the response, or the exception that leaves the
\* block, with the log lines written on the way
decode_content(body, is_gzipped) ==
  IF is_gzipped
  THEN LET l == <<"INFO Decompressing gzipped content.">>
           z == GzipRead(body)
       IN  IF z.ok
           THEN \* line 35, inside the try: a failure falls to 'except Exception'
                LET d == DecodePayload(z.v)
                IN  IF d.ok THEN [res |-> d, log |-> l]
                    ELSE [res |-> d, log |-> l \o <<"ERROR Error decompressing gzip">>]
           ELSE IF caught_as_bad_gzip(z.exc)
           THEN \* lines 36-38: content is still the bytes as received
                [res |-> DecodeRaw(body),
                 log |-> l \o <<"WARNING Content was not gzipped, trying as plain text.">>]
           ELSE \* lines 39-41
                [res |-> z, log |-> l \o <<"ERROR Error decompressing gzip">>]
  ELSE [res |-> DecodeRaw(body), log |-> <<>>]

\* lines 17-61.  Every exception is caught: the function always returns.
fetch_url(response, is_json, is_gzipped, stream) ==
  LET l0 == <<"INFO Fetching URL">>
  IN  IF response.status # "ok"
      THEN [ret |-> None, log |-> l0 \o <<"ERROR Error fetching">>]
      ELSE IF stream
      THEN [ret |-> [t |-> "response", body |-> response.body],
            log |-> l0 \o <<"INFO Returning streaming response.">>]
      ELSE LET c == decode_content(response.body, is_gzipped)
           IN  IF ~c.res.ok
               THEN [ret |-> None, log |-> l0 \o c.log \o <<"ERROR An unexpected error occurred">>]
               ELSE IF is_json
               THEN LET j == json_loads(c.res.v)
                        l1 == l0 \o c.log \o <<"INFO Parsing JSON data.">>
                    IN  IF j.ok THEN [ret |-> j.v, log |-> l1]
                        ELSE [ret |-> None, log |-> l1 \o <<"ERROR Error decoding JSON">>]
               ELSE [ret |-> [t |-> "text", text |-> c.res.v],
                     log |-> l0 \o c.log \o <<"INFO Returning raw text content.">>]

(***************************************************************************)
(* write_m3u_file                                                          *)
(*                                                                         *)
(* fs is [dirExists, files, disk].  disk names the operation that fails:   *)
(* "mkdir_fails" (os.makedirs raises OSError), "open_fails" (open raises   *)
(* OSError), "write_fails" (open has created or truncated the file, then   *)
(* f.write raises OSError), or "ok".                                       *)
(***************************************************************************)
\* files with the file 'name' holding 'content'
Store(fileMap, name, content) ==
  [n \in DOMAIN fileMap \cup {name} |-> IF n = name THEN content ELSE fileMap[n]]

\* lines 63-75
write_m3u_file(filename, content, fs) ==
  IF ~fs.dirExists /\ fs.disk = "mkdir_fails"
  THEN \* line 67 is outside the try: the OSError leaves the function
       [raised |-> TRUE, exc |-> "OSError", dirExists |-> FALSE, files |-> fs.files,
        log |-> <<"INFO Creating output directory">>]
  ELSE LET l == IF fs.dirExists THEN <<>> ELSE <<"INFO Creating output directory">>
       IN  CASE fs.disk = "open_fails" ->
                  [raised |-> FALSE, exc |-> "", dirExists |-> TRUE, files |-> fs.files,
                   log |-> l \o <<"ERROR Error writing file">>]
             [] fs.disk = "write_fails" ->
                  [raised |-> FALSE, exc |-> "", dirExists |-> TRUE,
                   files |-> Store(fs.files, filename, <<>>),
                   log |-> l \o <<"ERROR Error writing file">>]
             [] OTHER ->
                  [raised |-> FALSE, exc |-> "", dirExists |-> TRUE,
                   files |-> Store(fs.files, filename, content),
                   log |-> l \o <<"INFO Successfully wrote playlist">>]

(***************************************************************************)
(* generate_lgchannels_m3u                                                 *)
(*                                                                         *)
(* A dict that is iterated is a sequence of [key, val] items in insertion  *)
(* order.  The catalog is None or [t |-> "dict", hasRegions, regions]; a   *)
(* region record is [hasChannels, channels]; a channel record is           *)
(* [name, chno, logo, group], each a value or Absent.                      *)
(***************************************************************************)
HasKey(d, key) == \E i \in 1..Len(d) : d[i].key = key

\* d[key]
Item(d, key) == d[CHOOSE i \in 1..Len(d) : d[i].key = key].val

\* d[key] = val: a new key goes last, a key already there keeps its place
SetItem(d, key, val) ==
  IF HasKey(d, key)
  THEN [i \in 1..Len(d) |-> IF d[i].key = key THEN [key |-> key, val |-> val] ELSE d[i]]
  ELSE Append(d, [key |-> key, val |-> val])

\* list(d.keys())
Keys(d) == [i \in 1..Len(d) |-> d[i].key]

\* lines 109-115
region_name_map == <<
    [key |-> <<"a", "r">>, val |-> <<"A", "r", "g", "e", "n", "t", "i", "n", "a">>],
    [key |-> <<"b", "r">>, val |-> <<"B", "r", "a", "z", "i", "l">>],
    [key |-> <<"c", "a">>, val |-> <<"C", "a", "n", "a", "d", "a">>],
    [key |-> <<"c", "l">>, val |-> <<"C", "h", "i", "l", "e">>],
    [key |-> <<"c", "o">>, val |-> <<"C", "o", "l", "o", "m", "b", "i", "a">>],
    [key |-> <<"c", "r">>, val |-> <<"C", "o", "s", "t", "a", " ", "R", "i", "c", "a">>],
    [key |-> <<"d", "e">>, val |-> <<"G", "e", "r", "m", "a", "n", "y">>],
    [key |-> <<"d", "k">>, val |-> <<"D", "e", "n", "m", "a", "r", "k">>],
    [key |-> <<"d", "o">>, val |-> <<"D", "o", "m", "i", "n", "i", "c", "a", "n", " ", "R", "e", "p", "u", "b", "l", "i", "c">>],
    [key |-> <<"e", "c">>, val |-> <<"E", "c", "u", "a", "d", "o", "r">>],
    [key |-> <<"e", "s">>, val |-> <<"S", "p", "a", "i", "n">>],
    [key |-> <<"f", "r">>, val |-> <<"F", "r", "a", "n", "c", "e">>],
    [key |-> <<"g", "b">>, val |-> <<"U", "n", "i", "t", "e", "d", " ", "K", "i", "n", "g", "d", "o", "m">>],
    [key |-> <<"g", "t">>, val |-> <<"G", "u", "a", "t", "e", "m", "a", "l", "a">>],
    [key |-> <<"i", "t">>, val |-> <<"I", "t", "a", "l", "y">>],
    [key |-> <<"m", "x">>, val |-> <<"M", "e", "x", "i", "c", "o">>],
    [key |-> <<"n", "o">>, val |-> <<"N", "o", "r", "w", "a", "y">>],
    [key |-> <<"p", "e">>, val |-> <<"P", "e", "r", "u">>],
    [key |-> <<"s", "e">>, val |-> <<"S", "w", "e", "d", "e", "n">>],
    [key |-> <<"u", "s">>, val |-> <<"U", "n", "i", "t", "e", "d", " ", "S", "t", "a", "t", "e", "s">>],
    [key |-> <<"l", "a", "t", "a", "m">>, val |-> <<"L", "a", "t", "i", "n", " ", "A", "m", "e", "r", "i", "c", "a">>] >>

\* line 126
region_full_name(region_key) ==
  IF HasKey(region_name_map, region_key) THEN Item(region_name_map, region_key) ELSE Upper(region_key)

\* line 128
unique_channel_id(channel_key, region_key) == channel_key \o <<"-">> \o region_key

\* line 122
is_all_region(region) == Lower(region) = <<"a", "l", "l">>

\* the dict literals of lines 130-135 and 142-146
merged_entry(channel_info, region_key, channel_key) ==
  [name |-> channel_info.name, chno |-> channel_info.chno, logo |-> channel_info.logo,
   group |-> channel_info.group, region_code |-> PyStr(region_key),
   group_title_override |-> PyStr(region_full_name(region_key)),
   original_id |-> PyStr(channel_key)]

region_entry(channel_info, region, channel_key) ==
  [name |-> channel_info.name, chno |-> channel_info.chno, logo |-> channel_info.logo,
   group |-> channel_info.group, region_code |-> PyStr(region),
   group_title_override |-> Absent,
   original_id |-> PyStr(channel_key)]

\* lines 127-135: the channels of one region, added to channels_to_process
RECURSIVE add_merged(_, _, _)
add_merged(acc, channels, region_key) ==
  IF channels = <<>> THEN acc
  ELSE add_merged(SetItem(acc, unique_channel_id(Head(channels).key, region_key),
                          merged_entry(Head(channels).val, region_key, Head(channels).key)),
                  Tail(channels), region_key)

\* lines 125-135: every region of the catalog, in catalog order
RECURSIVE add_all_regions(_, _)
add_all_regions(acc, regs) ==
  IF regs = <<>> THEN acc
  ELSE add_all_regions(add_merged(acc, Head(regs).val.channels, Head(regs).key), Tail(regs))

\* lines 141-146
RECURSIVE add_region(_, _, _)
add_region(acc, channels, region) ==
  IF channels = <<>> THEN acc
  ELSE add_region(SetItem(acc, Head(channels).key, region_entry(Head(channels).val, region, Head(channels).key)),
                  Tail(channels), region)

\* lines 121-146, for a region that is not skipped
channels_to_process(catalog, region) ==
  IF is_all_region(region) THEN add_all_regions(<<>>, catalog.regions)
  ELSE add_region(<<>>, Item(catalog.regions, region).channels, region)

\* lines 137-140: 'not region_data' holds for a region that is absent from
\* the catalog and for a region whose record is the empty dict
region_skipped(catalog, region) ==
  /\ ~is_all_region(region)
  /\ (~HasKey(catalog.regions, region) \/ ~Item(catalog.regions, region).hasChannels)

\* the key functions of lines 151 and 153, without the lower() of line 153
sort_key_cased(channel, sortMode) ==
  IF sortMode = "chno" THEN int(Get(channel, "chno", PyInt(99999)))
  ELSE LET n == Get(channel, "name", PyStr(<<>>))
       IN  IF n.t = "str" THEN Returned(n.s) ELSE Raised("AttributeError")

\* the key functions of lines 151 and 153
sort_key(channel, sortMode) ==
  IF sortMode = "chno" THEN int(Get(channel, "chno", PyInt(99999)))
  ELSE LET n == Get(channel, "name", PyStr(<<>>))
       IN  IF n.t = "str" THEN Returned(Lower(n.s)) ELSE Raised("AttributeError")

\* a < b for two sort keys of the same mode
key_less(a, b, sortMode) == IF sortMode = "chno" THEN a < b ELSE StrLess(a, b)

\* sorted(ids, key=...): Python's sort is stable, so an element comes after
\* the elements with a smaller key and after the earlier elements with an
\* equal key
sorted(ids, keys, sortMode) ==
  LET n == Len(ids)
      before(j, i) == key_less(keys[j], keys[i], sortMode) \/ (~key_less(keys[i], keys[j], sortMode) /\ j < i)
      rank(i) == 1 + Cardinality({j \in 1..n : j # i /\ before(j, i)})
  IN  [r \in 1..n |-> ids[CHOOSE i \in 1..n : rank(i) = r]]

\* lines 149-156
sorted_channel_ids(chans, sortMode) ==
  LET ks == [i \in 1..Len(chans) |-> sort_key(chans[i].val, sortMode)]
  IN  IF \E i \in 1..Len(chans) : ~ks[i].ok
      THEN Keys(chans)
      ELSE sorted(Keys(chans), [i \in 1..Len(chans) |-> ks[i].v], sortMode)

\* line 101 and 169
stream_url(original_id) == <<"https://jmp2.uk/plu-">> \o original_id \o <<".m3u8">>

\* line 102 and 119
epg_url(region) == <<"https://github.com/matthuisman/i.mjh.nz/raw/master/PlutoTV/">> \o region \o <<".xml.gz">>

\* lines 160-168: the EXTINF line of one channel, or the exception
entry_extinf(channel_id, channel, merged) ==
  LET chno == Get(channel, "chno", None)
      name == Get(channel, "name", PyStr(<<"U", "n", "k", "n", "o", "w", "n", " ", "C", "h", "a", "n", "n", "e", "l">>))
      logo == Get(channel, "logo", PyStr(<<>>))
      group == IF merged THEN Get(channel, "group_title_override", None)
               ELSE Get(channel, "group", PyStr(<<"U", "n", "c", "a", "t", "e", "g", "o", "r", "i", "z", "e", "d">>))
      tvg_id == channel.original_id.s
  IN  format_extinf(channel_id, tvg_id, chno, name, logo, group, name)

\* lines 159-171: the lines appended for the channels ids[i..], or the
\* first exception
RECURSIVE build_entries(_, _, _, _)
build_entries(ids, i, chans, merged) ==
  IF i > Len(ids) THEN Returned(<<>>)
  ELSE LET channel == Item(chans, ids[i])
           extinf == entry_extinf(ids[i], channel, merged)
           rest == build_entries(ids, i + 1, chans, merged)
       IN  IF ~extinf.ok THEN extinf
           ELSE IF ~rest.ok THEN rest
           ELSE Returned(extinf.v \o stream_url(channel.original_id.s) \o <<"\n">> \o rest.v)

\* line 173
playlist_filename(region) == <<"lgchannels_">> \o region \o <<".m3u">>

\* lines 118-173: one pass of the for loop
region_iteration(catalog, region, sortMode, fs) ==
  IF region_skipped(catalog, region)
  THEN [outcome |-> "skipped", exc |-> "", dirExists |-> fs.dirExists, files |-> fs.files,
        log |-> <<"WARNING Region not found in PlutoTV data. Skipping.">>]
  ELSE LET chans == channels_to_process(catalog, region)
           ids == sorted_channel_ids(chans, sortMode)
           body == build_entries(ids, 1, chans, is_all_region(region))
           header == <<"#EXTM3U url-tvg=\"">> \o epg_url(region) \o <<"\"", "\n">>
       IN  IF ~body.ok
           THEN [outcome |-> "raised", exc |-> body.exc, dirExists |-> fs.dirExists, files |-> fs.files,
                 log |-> <<>>]
           ELSE LET w == write_m3u_file(playlist_filename(region), header \o body.v, fs)
                IN  [outcome |-> IF w.raised THEN "raised" ELSE "written", exc |-> w.exc,
                     dirExists |-> w.dirExists, files |-> w.files, log |-> w.log]

\* lines 117-173: the for loop from regions[i] on
RECURSIVE region_loop(_, _, _, _, _)
region_loop(catalog, regionList, sortMode, i, fs) ==
  IF i > Len(regionList)
  THEN [raised |-> FALSE, exc |-> "", dirExists |-> fs.dirExists, files |-> fs.files]
  ELSE LET r == region_iteration(catalog, regionList[i], sortMode, fs)
       IN  IF r.outcome = "raised"
           THEN [raised |-> TRUE, exc |-> r.exc, dirExists |-> r.dirExists, files |-> r.files]
           ELSE region_loop(catalog, regionList, sortMode, i + 1,
                            [dirExists |-> r.dirExists, files |-> r.files, disk |-> fs.disk])

\* the names bound when line 104 runs: the parameters and the locals assigned
\* on lines 100-102, then the names the module defines (lines 1-6, 9-11, 17,
\* 63, 77, 98)
LocalNames == {"regions", "sort", "LGCHANNELS_URL", "STREAM_URL_TEMPLATE", "EPG_URL_TEMPLATE"}

ModuleNames == {"requests", "gzip", "json", "os", "logging", "BytesIO",
                "OUTPUT_DIR", "USER_AGENT", "REQUEST_TIMEOUT",
                "fetch_url", "write_m3u_file", "format_extinf", "generate_lgchannels_m3u"}

\* line 105: not data or 'regions' not in data
no_catalog(d) == d = None \/ ~d.hasRegions

\* lines 98-173.  Line 104 reads the name lgchannels_URL.
generate_lgchannels_m3u(regionList, sortMode, response, fs) ==
  IF "lgchannels_URL" \notin LocalNames \cup ModuleNames
  THEN [raised |-> TRUE, exc |-> "NameError", dirExists |-> fs.dirExists, files |-> fs.files]
  ELSE LET f == fetch_url(response, TRUE, TRUE, FALSE)
       IN  IF no_catalog(f.ret)
           THEN [raised |-> FALSE, exc |-> "", dirExists |-> fs.dirExists, files |-> fs.files]
           ELSE region_loop(f.ret, regionList, sortMode, 1, fs)

(***************************************************************************)
(* Inputs.                                                                 *)
(***************************************************************************)
EmptyDict == <<>>

NoFiles == [n \in {} |-> <<>>]

Running == [t |-> "running"]

\* texts: malformed JSON, "null", an object without 'regions', a catalog
BadText == [parses |-> FALSE, value |-> None]

NullText == [parses |-> TRUE, value |-> None]

Catalog(regs) == [t |-> "dict", hasRegions |-> TRUE, regions |-> regs]

NoRegionsText == [parses |-> TRUE, value |-> [t |-> "dict", hasRegions |-> FALSE, regions |-> EmptyDict]]

Info(name, chno) == [name |-> name, chno |-> chno, logo |-> Absent, group |-> Absent]

NewsInfo == [name |-> PyStr(<<"N", ",", "1">>), chno |-> Absent, logo |-> PyStr(<<"l", ",", "g">>), group |-> PyStr(<<"N", ",", "\"">>)]

RegionOf(channels) == [hasChannels |-> TRUE, channels |-> channels]

EmptyRegion == [hasChannels |-> FALSE, channels |-> EmptyDict]

UsCatalog == Catalog(<<[key |-> <<"u", "s">>, val |-> RegionOf(<<[key |-> <<"n">>, val |-> NewsInfo]>>)]>>)

CatalogText == [parses |-> TRUE, value |-> UsCatalog]

Texts == {BadText, NullText, NoRegionsText, CatalogText}

NoBody == [gz |-> "empty", utf8 |-> TRUE, text |-> BadText]

Bodies ==
  {[gz |-> g, utf8 |-> TRUE, text |-> t] : g \in {"plain", "ok", "truncated", "baddata", "badcrc"}, t \in Texts}
  \cup {[gz |-> g, utf8 |-> FALSE, text |-> BadText] : g \in {"plain", "ok", "truncated", "baddata", "badcrc"}}
  \cup {NoBody}

Responses ==
  {[status |-> s, body |-> NoBody] : s \in {"http_error", "timeout"}}
  \cup {[status |-> "ok", body |-> b] : b \in Bodies}

Disks == {"ok", "mkdir_fails", "open_fails", "write_fails"}

RequestCodes == {<<"a", "l", "l">>, <<"u", "s">>, <<"z", "z">>}

RequestLists == UNION {[1..n -> RequestCodes] : n \in 0..MaxRequests}

SortModes == {"name", "chno"}

FormatChnos == {None, PyInt(7), PyStr(<<"7">>), PyStr(<<"7", ".", "5">>), PyStr(<<"-", "3">>),
                PyInt(0 - 3), PyFloat(7, 5), PyStr(<<>>), PyStr(<<"x">>), PyInt(120)}

FormatNames == {None, PyStr(<<"Z">>), PyStr(<<"a", ",", "b">>), PyStr(<<"a", "\"", "b">>)}

\* the channel records handed to format_extinf: every channel number with
\* plain fields, and every name with a logo and a group that hold commas and
\* quotes
FormatArgs ==
  {[chno |-> c, name |-> PyStr(<<"Z">>), logo |-> PyStr(<<>>), group |-> PyStr(<<"N", "e", "w", "s">>)] :
     c \in FormatChnos}
  \cup {[chno |-> PyInt(7), name |-> n, logo |-> PyStr(<<"l", ",", "g">>), group |-> g] :
          n \in FormatNames, g \in {PyStr(<<"a", ",", "\"">>), None}}

\* the channels of the sorting catalogs get the keys k8, k7, k6, ...
KeyOf(i) == <<"k">> \o Decimal(9 - i)

SortNames == {Absent, None, PyStr(<<"Z">>), PyStr(<<"a">>), PyStr(<<"A">>)}

SortChnos == {Absent, None, PyInt(5), PyInt(1), PyStr(<<"7">>), PyStr(<<"x">>), PyInt(100000)}

ChannelDicts(infos) ==
  {[i \in 1..Len(f) |-> [key |-> KeyOf(i), val |-> f[i]]] : f \in UNION {[1..n -> infos] : n \in 0..MaxChannels}}

NameCatalogs == {Catalog(<<[key |-> <<"u", "s">>, val |-> RegionOf(c)]>>) : c \in ChannelDicts({Info(n, Absent) : n \in SortNames})}

ChnoCatalogs == {Catalog(<<[key |-> <<"u", "s">>, val |-> RegionOf(c)]>>) : c \in ChannelDicts({Info(PyStr(<<"n">>), c) : c \in SortChnos})}

MergeCodes == {<<"u", "s">>, <<"b", "-", "c">>, <<"c">>}

MergeKeys == {<<"a">>, <<"a", "-", "b">>}

\* the region records: {}, and {'channels': {...}} with up to MaxMergeChannels
\* channels of distinct keys
MergeRegions ==
  {EmptyRegion}
  \cup {RegionOf([i \in 1..Len(ks) |-> [key |-> ks[i], val |-> NewsInfo]]) :
          ks \in {q \in UNION {[1..n -> MergeKeys] : n \in 0..MaxMergeChannels} :
                    \A i, j \in 1..Len(q) : i # j => q[i] # q[j]}}

MergeCatalogs ==
  {Catalog(EmptyDict)}
  \cup {Catalog(<<[key |-> c, val |-> r]>>) : c \in MergeCodes, r \in MergeRegions}
  \cup {Catalog(<<[key |-> c[1], val |-> r1], [key |-> c[2], val |-> r2]>>) :
          c \in {p \in MergeCodes \X MergeCodes : p[1] # p[2]}, r1 \in MergeRegions, r2 \in MergeRegions}

(***************************************************************************)
(* The module as a library: each action is one call of one of its          *)
(* functions, against the environment (network answer, disk) fixed at      *)
(* Init.                                                                   *)
(***************************************************************************)
Init ==
  /\ pc = "idle"
  /\ call = [fn |-> "none"]
  /\ ret = Running
  /\ log = <<>>
  /\ files = NoFiles
  /\ data = None
  /\ regions = <<>>
  /\ sort = "name"
  /\ idx = 0
  /\ \/ /\ net \in Responses
        /\ disk = "ok"
        /\ dirExists = TRUE
     \/ /\ net = [status |-> "ok", body |-> [gz |-> "ok", utf8 |-> TRUE, text |-> CatalogText]]
        /\ disk \in Disks
        /\ dirExists \in BOOLEAN

Fs == [dirExists |-> dirExists, files |-> files, disk |-> disk]

CallFetchUrl ==
  \E is_json \in BOOLEAN, is_gzipped \in BOOLEAN, stream \in BOOLEAN :
    LET r == fetch_url(net, is_json, is_gzipped, stream)
    IN  /\ call' = [fn |-> "fetch_url", is_json |-> is_json, is_gzipped |-> is_gzipped, stream |-> stream]
        /\ ret' = Returned(r.ret)
        /\ log' = r.log
        /\ UNCHANGED <<pc, dirExists, files, disk, net, data, regions, sort, idx>>

CallFormatExtinf ==
  \E a \in FormatArgs, display \in {PyStr(<<"x", ",", "y", ",">>)} :
    \E display_name \in {a.name, display} :
      /\ call' = [fn |-> "format_extinf", channel_id |-> <<"n", "-", "u", "s">>, tvg_id |-> <<"n">>,
                  tvg_chno |-> a.chno, tvg_name |-> a.name, tvg_logo |-> a.logo, group_title |-> a.group,
                  display_name |-> display_name]
      /\ ret' = format_extinf(<<"n", "-", "u", "s">>, <<"n">>, a.chno, a.name, a.logo, a.group, display_name)
      /\ log' = <<>>
      /\ UNCHANGED <<pc, dirExists, files, disk, net, data, regions, sort, idx>>

CallWriteM3uFile ==
  \E filename \in {playlist_filename(<<"u", "s">>), playlist_filename(<<"a", "l", "l">>)},
     content \in {<<"#EXTM3U url-tvg=\"">> \o epg_url(<<"u", "s">>) \o <<"\"", "\n">>} :
    LET w == write_m3u_file(filename, content, Fs)
    IN  /\ call' = [fn |-> "write_m3u_file", filename |-> filename, content |-> content]
        /\ ret' = IF w.raised THEN Raised(w.exc) ELSE Returned(None)
        /\ log' = w.log
        /\ dirExists' = w.dirExists
        /\ files' = w.files
        /\ UNCHANGED <<pc, disk, net, data, regions, sort, idx>>

CallGenerate ==
  \E regionList \in RequestLists, sortMode \in SortModes :
    LET g == generate_lgchannels_m3u(regionList, sortMode, net, Fs)
    IN  /\ call' = [fn |-> "generate_lgchannels_m3u", regions |-> regionList, sort |-> sortMode,
                    filesBefore |-> DOMAIN files]
        /\ ret' = IF g.raised THEN Raised(g.exc) ELSE Returned(None)
        /\ log' = <<>>
        /\ dirExists' = g.dirExists
        /\ files' = g.files
        /\ UNCHANGED <<pc, disk, net, data, regions, sort, idx>>

Next == CallFetchUrl \/ CallFormatExtinf \/ CallWriteM3uFile \/ CallGenerate

Spec == Init /\ [][Next]_vars

(***************************************************************************)
(* The for loop of generate_lgchannels_m3u (lines 117-173), entered with a *)
(* catalog in hand: one action per pass.                                   *)
(***************************************************************************)
LoopInit ==
  /\ pc = "loop"
  /\ call = [fn |-> "region_loop"]
  /\ ret = Running
  /\ log = <<>>
  /\ dirExists = FALSE
  /\ files = NoFiles
  /\ net = [status |-> "ok", body |-> [gz |-> "ok", utf8 |-> TRUE, text |-> CatalogText]]
  /\ idx = 1
  /\ \/ /\ data \in NameCatalogs
        /\ sort \in {"name", "title"}
        /\ regions = << <<"u", "s">> >>
        /\ disk = "ok"
     \/ /\ data \in ChnoCatalogs
        /\ sort = "chno"
        /\ regions = << <<"u", "s">> >>
        /\ disk = "ok"
     \/ /\ data \in MergeCatalogs
        /\ sort = "name"
        /\ regions \in RequestLists
        /\ disk = "ok"

Pass == region_iteration(data, regions[idx], sort, Fs)

LoopSkip ==
  /\ pc = "loop" /\ idx <= Len(regions)
  /\ \E p \in {Pass} :
       /\ p.outcome = "skipped"
       /\ idx' = idx + 1
       /\ log' = p.log
       /\ UNCHANGED <<pc, call, ret, dirExists, files, disk, net, data, regions, sort>>

LoopWrite ==
  /\ pc = "loop" /\ idx <= Len(regions)
  /\ \E p \in {Pass} :
       /\ p.outcome = "written"
       /\ idx' = idx + 1
       /\ log' = p.log
       /\ dirExists' = p.dirExists
       /\ files' = p.files
       /\ UNCHANGED <<pc, call, ret, disk, net, data, regions, sort>>

LoopRaise ==
  /\ pc = "loop" /\ idx <= Len(regions)
  /\ \E p \in {Pass} :
       /\ p.outcome = "raised"
       /\ pc' = "raised"
       /\ ret' = Raised(p.exc)
       /\ log' = p.log
       /\ dirExists' = p.dirExists
       /\ files' = p.files
       /\ UNCHANGED <<call, idx, disk, net, data, regions, sort>>

LoopReturn ==
  /\ pc = "loop" /\ idx > Len(regions)
  /\ pc' = "returned"
  /\ ret' = Returned(None)
  /\ UNCHANGED <<call, log, idx, dirExists, files, disk, net, data, regions, sort>>

LoopNext == LoopSkip \/ LoopWrite \/ LoopRaise \/ LoopReturn

LoopSpec == LoopInit /\ [][LoopNext]_vars

(***************************************************************************)
(* Reading a playlist back.                                                *)
(***************************************************************************)
\* the lines of a text, without their line breaks
RECURSIVE SplitLines(_)
SplitLines(text) ==
  IF text = <<>> THEN <<>>
  ELSE IF \A i \in 1..Len(text) : text[i] # "\n" THEN <<text>>
  ELSE LET k == CHOOSE i \in 1..Len(text) : text[i] = "\n" /\ \A j \in 1..(i - 1) : text[j] # "\n"
       IN  <<SubSeq(text, 1, k - 1)>> \o SplitLines(SubSeq(text, k + 1, Len(text)))

\* the value of the attribute that the token 'open' starts: the tokens up to
\* the next closing quote
AttrOf(line, open) ==
  LET i == CHOOSE i \in 1..Len(line) : line[i] = open
      j == CHOOSE j \in (i + 1)..Len(line) :
             line[j] \in {"\" ", "\""} /\ \A m \in (i + 1)..(j - 1) : line[m] \notin {"\" ", "\""}
  IN  SubSeq(line, i + 1, j - 1)

\* the position of the comma that follows the closing quote of group-title
SeparatorOf(line) ==
  LET g == CHOOSE i \in 1..Len(line) : line[i] = "group-title=\""
  IN  1 + CHOOSE j \in (g + 1)..Len(line) : line[j] = "\"" /\ \A m \in (g + 1)..(j - 1) : line[m] # "\""

Commas(line) == Cardinality({i \in 1..Len(line) : line[i] = ","})

Written(region) == playlist_filename(region) \in DOMAIN files

\* the lines of a playlist that was written, as a one-element set: a formula
\* binds them once with \A lines \in LinesOf(region)
LinesOf(region) == {SplitLines(files[playlist_filename(region)])}

EntryCount(lines) == (Len(lines) - 1) \div 2

\* the k-th entry of the playlist: its EXTINF line and its URL line
Extinf(lines, k) == lines[2 * k]

UrlLine(lines, k) == lines[2 * k + 1]

\* the channel-id of every entry, in playlist order
ChannelIds(lines) == [k \in 1..EntryCount(lines) |-> AttrOf(Extinf(lines, k), "channel-id=\"")]

Us == <<"u", "s">>

All == <<"a", "l", "l">>

UsChannels == Item(data.regions, Us).channels

\* the place in the catalog of every entry of lgchannels_us.m3u
UsPlaces(lines) ==
  [k \in 1..EntryCount(lines) |->
     CHOOSE i \in 1..Len(UsChannels) : UsChannels[i].key = AttrOf(Extinf(lines, k), "channel-id=\"")]

(***************************************************************************)
(* C1: a requested region that the catalog lacks produces no file and no   *)
(* crash, and every other requested region of the list gets its file.      *)
(***************************************************************************)
NetCatalog == fetch_url(net, TRUE, TRUE, FALSE).ret

C1_MissingRegionIsSkipped ==
  (/\ call.fn = "generate_lgchannels_m3u"
   /\ disk = "ok"
   /\ ~no_catalog(NetCatalog)
   /\ \E i \in 1..Len(call.regions) : region_skipped(NetCatalog, call.regions[i]))
  => /\ ret.ok
     /\ \A i \in 1..Len(call.regions) :
          IF region_skipped(NetCatalog, call.regions[i])
          THEN playlist_filename(call.regions[i]) \notin DOMAIN files
          ELSE playlist_filename(call.regions[i]) \in DOMAIN files

(***************************************************************************)
(* C2: when the catalog fetch yields None, a run of                        *)
(* generate_lgchannels_m3u writes no file and returns normally.            *)
(***************************************************************************)
C2_NullFetchReturnsNormally ==
  (call.fn = "generate_lgchannels_m3u" /\ NetCatalog = None)
  => (ret = Returned(None) /\ DOMAIN files = call.filesBefore)

(***************************************************************************)
(* C3: in the merged playlist, two regions A and B that share a channel    *)
(* key k give two entries with channel-id k-A and k-B; each has its        *)
(* region's display name as group-title, and k as tvg-id and in its URL.   *)
(***************************************************************************)
DisplayName(code) == IF code = Us THEN <<"U", "n", "i", "t", "e", "d", " ", "S", "t", "a", "t", "e", "s">> ELSE Upper(code)

MergedEntryFor(k, code, lines, e) ==
  /\ AttrOf(Extinf(lines, e), "channel-id=\"") = k \o <<"-">> \o code
  /\ AttrOf(Extinf(lines, e), "group-title=\"") = DisplayName(code)
  /\ AttrOf(Extinf(lines, e), "tvg-id=\"") = k
  /\ UrlLine(lines, e) = <<"https://jmp2.uk/plu-">> \o k \o <<".m3u8">>

C3_MergedEntriesPerRegion ==
  (pc = "returned" /\ Written(All))
  => \A lines \in LinesOf(All) :
       \A a, b \in 1..Len(data.regions) :
         \A k \in MergeKeys :
           (a # b /\ HasKey(data.regions[a].val.channels, k) /\ HasKey(data.regions[b].val.channels, k))
           => \E e1, e2 \in 1..EntryCount(lines) :
                /\ e1 # e2
                /\ MergedEntryFor(k, data.regions[a].key, lines, e1)
                /\ MergedEntryFor(k, data.regions[b].key, lines, e2)

(***************************************************************************)
(* C4: with sort "chno" the entries are in ascending channel-number order  *)
(* and every channel without a numeric channel number comes after all      *)
(* channels that have one.                                                 *)
(***************************************************************************)
Numeric(chno) == chno.t = "int" \/ (chno.t = "str" /\ isdigit(chno.s))

NumberOf(chno) == IF chno.t = "int" THEN chno.n ELSE DigitsValue(chno.s)

C4_ChnoOrder ==
  (sort = "chno" /\ data \in ChnoCatalogs /\ Written(Us))
  => \A lines \in LinesOf(Us) :
       \A place \in {UsPlaces(lines)} :
         \A i, j \in 1..EntryCount(lines) :
           LET ci == UsChannels[place[i]].val.chno
               cj == UsChannels[place[j]].val.chno
           IN  i < j => /\ Numeric(cj) => Numeric(ci)
                        /\ (Numeric(ci) /\ Numeric(cj)) => NumberOf(ci) <= NumberOf(cj)

(***************************************************************************)
(* C5: with any sort mode other than "chno" the playlist holds every       *)
(* channel of the region once, in ascending order of the lower-cased name  *)
(* (a channel without a name counts as the empty name and comes first);    *)
(* channels whose names are equal ignoring case keep their catalog order.  *)
(***************************************************************************)
NameKey(info) == IF info.name = Absent THEN <<>> ELSE Lower(info.name.s)

C5_NameOrder ==
  (sort # "chno" /\ data \in NameCatalogs /\ Written(Us))
  => \A lines \in LinesOf(Us) :
       \A ids \in {ChannelIds(lines)}, place \in {UsPlaces(lines)} :
         /\ Len(ids) = Len(UsChannels)
         /\ \A i \in 1..Len(UsChannels) : \E k \in 1..Len(ids) : ids[k] = UsChannels[i].key
         /\ \A i, j \in 1..Len(ids) :
              LET ki == NameKey(UsChannels[place[i]].val)
                  kj == NameKey(UsChannels[place[j]].val)
              IN  i < j => /\ ~StrLess(kj, ki)
                           /\ ki = kj => place[i] < place[j]

\* a playlist of three channels that the sort reordered: one without a name,
\* and two whose names differ only in case
C5_Witness ==
  /\ sort # "chno" /\ data \in NameCatalogs /\ Written(Us)
  /\ \E lines \in LinesOf(Us) :
       \E place \in {UsPlaces(lines)} :
         /\ EntryCount(lines) = 3
         /\ UsChannels[place[1]].val.name = Absent /\ place[1] = 3
         /\ UsChannels[place[2]].val.name # UsChannels[place[3]].val.name
         /\ NameKey(UsChannels[place[2]].val) = NameKey(UsChannels[place[3]].val)

(***************************************************************************)
(* C6: tvg-chno is the decimal text of the channel number exactly when the *)
(* channel number is not None and its string form is made of digits only;  *)
(* otherwise it is empty.                                                  *)
(***************************************************************************)
Rendered == AttrOf(ret.v, "tvg-chno=\"")

DigitsOnly(s) == s # <<>> /\ \A i \in 1..Len(s) : s[i] \in {"0", "1", "2", "3", "4", "5", "6", "7", "8", "9"}

C6_ChnoAttribute ==
  (call.fn = "format_extinf" /\ ret.ok)
  => /\ IF call.tvg_chno # None /\ DigitsOnly(str(call.tvg_chno))
        THEN Rendered = str(call.tvg_chno)
        ELSE Rendered = <<>>
     /\ call.tvg_chno \in {PyInt(7), PyStr(<<"7">>)} => Rendered = <<"7">>
     /\ call.tvg_chno \in {None, PyStr(<<"7", ".", "5">>), PyStr(<<"-", "3">>)} => Rendered = <<>>

C6_Witness ==
  /\ call.fn = "format_extinf" /\ ret.ok
  /\ call.tvg_chno = PyStr(<<"-", "3">>)
  /\ Rendered = <<>>

(***************************************************************************)
(* C7, as claimed: every entry is one #EXTINF:-1 line and one stream-URL   *)
(* line, and the only comma of the EXTINF line is the separator before the *)
(* display name.                                                           *)
(***************************************************************************)
EntryShape(lines) ==
  /\ Len(lines) = 1 + 2 * EntryCount(lines)
  /\ \A k \in 1..EntryCount(lines) :
       /\ Extinf(lines, k)[1] = "#EXTINF:-1 "
       /\ UrlLine(lines, k)[1] = "https://jmp2.uk/plu-"
       /\ \A m \in 2..Len(Extinf(lines, k)) : Extinf(lines, k)[m] # "#EXTINF:-1 "

C7_OnlySeparatorComma ==
  \A region \in RequestCodes :
    Written(region)
    => \A lines \in LinesOf(region) :
         /\ EntryShape(lines)
         /\ \A k \in 1..EntryCount(lines) : Commas(Extinf(lines, k)) = 1

(***************************************************************************)
(* C7, amended: every entry is one #EXTINF:-1 line and one stream-URL      *)
(* line, and no comma follows the separator that comes after the           *)
(* group-title attribute: the display name holds none.  The commas of the  *)
(* name, logo and group fields stay inside their attributes.               *)
(***************************************************************************)
C7_NoCommaInDisplayName ==
  \A region \in RequestCodes :
    Written(region)
    => \A lines \in LinesOf(region) :
         /\ EntryShape(lines)
         /\ \A k \in 1..EntryCount(lines) :
              \A sep \in {SeparatorOf(Extinf(lines, k))} :
                /\ Extinf(lines, k)[sep] = ","
                /\ \A m \in (sep + 1)..Len(Extinf(lines, k)) : Extinf(lines, k)[m] # ","

\* a playlist with an entry whose name has a comma: the comma is still in
\* tvg-name and gone from the display name
C7_Witness ==
  /\ Written(Us)
  /\ \E lines \in LinesOf(Us) :
       \E k \in 1..EntryCount(lines) :
         /\ UsChannels[UsPlaces(lines)[k]].val.name = PyStr(<<"N", ",", "1">>)
         /\ AttrOf(Extinf(lines, k), "tvg-name=\"") = <<"N", ",", "1">>
         /\ SubSeq(Extinf(lines, k), SeparatorOf(Extinf(lines, k)) + 1, Len(Extinf(lines, k))) = <<"N", "1">>

(***************************************************************************)
(* C8: no exception leaves write_m3u_file, whether creating the directory  *)
(* or opening or writing the file fails.                                   *)
(***************************************************************************)
C8_WriterSwallowsFailures ==
  call.fn = "write_m3u_file" => ret.ok

(***************************************************************************)
(* C9, as claimed: with gzip expected, whenever decompression fails the    *)
(* fetcher falls back to decoding the body as plain UTF-8 text.            *)
(***************************************************************************)
GzipCall == call.fn = "fetch_url" /\ call.is_gzipped /\ ~call.stream /\ net.status = "ok"

FellBack == \E i \in 1..Len(log) : log[i] = "WARNING Content was not gzipped, trying as plain text."

\* what decoding the body as plain text gives the caller
PlainResult ==
  IF net.body.gz # "plain" \/ ~net.body.utf8 THEN None
  ELSE IF ~call.is_json THEN [t |-> "text", text |-> net.body.text]
  ELSE IF net.body.text.parses THEN net.body.text.value
  ELSE None

C9_AnyGzipFailureFallsBack ==
  (GzipCall /\ net.body.gz \in {"plain", "truncated", "baddata", "badcrc"})
  => (FellBack /\ ret = Returned(PlainResult))

(***************************************************************************)
(* C9, amended: the fetcher falls back to plain UTF-8 decoding when        *)
(* decompression raises BadGzipFile (no gzip magic number, or a wrong CRC  *)
(* or length trailer); a truncated stream or invalid deflate data is       *)
(* logged and re-raised, and fetch_url returns None without the fallback.  *)
(***************************************************************************)
C9_BadGzipFileFallsBack ==
  /\ (GzipCall /\ net.body.gz \in {"plain", "badcrc"})
     => (FellBack /\ ret = Returned(PlainResult))
  /\ (GzipCall /\ net.body.gz \in {"truncated", "baddata"})
     => /\ ~FellBack
        /\ ret = Returned(None)
        /\ \E i \in 1..Len(log) : log[i] = "ERROR Error decompressing gzip"

\* a plain JSON body, fetched with gzip expected, is parsed
C9_Witness ==
  /\ GzipCall /\ call.is_json
  /\ net.body = [gz |-> "plain", utf8 |-> TRUE, text |-> CatalogText]
  /\ FellBack
  /\ ret = Returned(UsCatalog)

(***************************************************************************)
(* C10: the merged playlist has one entry per channel of every region: its *)
(* entry count is the sum of the regions' channel counts.                  *)
(***************************************************************************)
RECURSIVE ChannelTotal(_)
ChannelTotal(regs) == IF regs = <<>> THEN 0 ELSE Len(Head(regs).val.channels) + ChannelTotal(Tail(regs))

C10_MergedKeysNeverCollide ==
  Written(All) => \A lines \in LinesOf(All) : EntryCount(lines) = ChannelTotal(data.regions)

====
